---- MODULE Spec2Model ----
(***************************************************************************)
(* Model of the GM1356 sound level meter logger (src/main.go).             *)
(*                                                                         *)
(* Two threads of control: main (setup, probe, wait for a signal, deferred *)
(* cleanup) and the polling goroutine readDecibelData.  The log file       *)
(* persists across runs of the program; everything else is per run.        *)
(* Measurements are kept in tenths of a decibel (the integer before the    *)
(* division by 10.0) and rendered by Sprintf1 with one fractional digit.   *)
(***************************************************************************)
EXTENDS Integers, Sequences, FiniteSets, TLC

VARIABLES
    run,          \* number of the current run of the program
    now,          \* wall clock, whole seconds
    polls,        \* polling iterations begun so far (all runs)
    sigCount,     \* signals delivered to the current run
    sigPolling,   \* a signal was delivered after the worker was started
    logFileName,  \* the -log flag ("" = logging disabled)
    mainPc,       \* position of main
    workerPc,     \* position of readDecibelData
    hidReady,     \* hid.Init succeeded and hid.Exit has not run
    device,       \* "none" | "open" | "closed"
    csvWriter,    \* "nil" | "open" | "closed" (state of the file under it)
    csvErr,       \* sticky error of the csv writer's buffered writer
    notified,     \* signal.Notify has registered the stop channel
    stop,         \* the stop channel, capacity 1
    buf,          \* readDecibelData's 8-byte buffer
    n,            \* byte count of the last device.Read (probe or loop)
    readErr,      \* the last device.Read returned an error
    data,         \* the last DecibelReading built by parseDecibelData
    stdout,       \* lines printed on standard output by this run
    stderr,       \* lines printed by the log package by this run
    fileExists,   \* the log path exists on disk
    fileRows,     \* rows of the log file on disk
    fileMark,     \* Len(fileRows) when this run's setupCSVLog returned
    wr            \* result of the last device.Write in sendCommand

vars == <<run, now, polls, sigCount, sigPolling, logFileName, mainPc,
          workerPc, hidReady, device, csvWriter, csvErr, notified, stop,
          buf, n, readErr, data, stdout, stderr, fileExists, fileRows,
          fileMark, wr>>

----------------------------------------------------------------------------
(* Bounds of the model *)

MaxRuns    == 2
MaxPolls   == 2
MaxSignals == 1
MaxTime    == 1

(* Program constants *)

BufLen     == 8
StopCap    == 1
CmdLen     == 8
ProbeMin   == 6
FrameUsed  == 3

Byte == 0..255

----------------------------------------------------------------------------
(* Bit operations on bytes and 16-bit words *)

RECURSIVE BitAnd(_, _)
BitAnd(a, b) ==
    IF a = 0 \/ b = 0 THEN 0
    ELSE (a % 2) * (b % 2) + 2 * BitAnd(a \div 2, b \div 2)

RECURSIVE BitOr(_, _)
BitOr(a, b) ==
    IF a = 0 THEN b
    ELSE IF b = 0 THEN a
    ELSE (IF a % 2 = 1 \/ b % 2 = 1 THEN 1 ELSE 0)
         + 2 * BitOr(a \div 2, b \div 2)

Shl16(x, k) == (x * (2 ^ k)) % 65536

----------------------------------------------------------------------------
(* Protocol codec *)

commandCapture == <<179, 0, 0, 0, 0, 0, 0, 0>>

rangeMap ==
    (0 :> "30-130") @@ (1 :> "30-80") @@ (2 :> "50-100") @@
    (3 :> "60-110") @@ (4 :> "80-130")

\* parseMode testing the wrong flag bit
parseModeWrongBit(b) ==
    IF BitAnd(b, 128) # 0 THEN "fast" ELSE "slow"

parseMode(b) ==
    IF BitAnd(b, 64) # 0 THEN "fast" ELSE "slow"

\* parseFreqMode without the second flag bit
parseFreqModeOneBit(b) ==
    IF BitAnd(b, 16) # 0 THEN "dBC" ELSE "dBA"

parseFreqMode(b) ==
    IF BitAnd(b, 16) # 0 \/ BitAnd(b, 128) # 0 THEN "dBC" ELSE "dBA"

\* parseRange looking the whole byte up, without the nibble mask
parseRangeNoMask(b) ==
    IF b \in DOMAIN rangeMap THEN rangeMap[b] ELSE "unknown"

parseRange(b) ==
    IF BitAnd(b, 15) \in DOMAIN rangeMap
    THEN rangeMap[BitAnd(b, 15)]
    ELSE "unknown"

\* the shift done on the byte before widening: the high byte is lost
MeasuredNarrow(hi, lo) == BitOr((hi * 256) % 256, lo)

\* (uint16(buf[0]) << 8) | uint16(buf[1]), the value before the / 10.0
Measured(hi, lo) == BitOr(Shl16(hi, 8), lo)

\* time.Now().UTC().Format("2006-01-02 15:04:05 UTC")
\* (the date and the hour are those of the start of the model's clock)
Pad2(k) == IF k < 10 THEN "0" \o ToString(k) ELSE ToString(k)

FormatTime(t) ==
    "2025-03-01 05:" \o Pad2((t \div 60) % 60) \o ":" \o Pad2(t % 60) \o " UTC"

\* parseDecibelData keeping state across calls: the magnitude drifts with
\* the time of the call
parseDecibelDataClock(b, t) ==
    [Timestamp |-> FormatTime(t),
     Measured  |-> (Measured(b[1], b[2]) + t) % 65536,
     Mode      |-> parseMode(b[3]),
     FreqMode  |-> parseFreqMode(b[3]),
     Range     |-> parseRange(b[3])]

\* parseDecibelData reading the magnitude little-endian
parseDecibelDataLE(b, t) ==
    [Timestamp |-> FormatTime(t),
     Measured  |-> Measured(b[2], b[1]),
     Mode      |-> parseMode(b[3]),
     FreqMode  |-> parseFreqMode(b[3]),
     Range     |-> parseRange(b[3])]

parseDecibelData(b, t) ==
    [Timestamp |-> FormatTime(t),
     Measured  |-> Measured(b[1], b[2]),
     Mode      |-> parseMode(b[3]),
     FreqMode  |-> parseFreqMode(b[3]),
     Range     |-> parseRange(b[3])]

\* fmt.Sprintf("%.1f", tenths / 10.0)
Sprintf1(tenths) == ToString(tenths \div 10) \o "." \o ToString(tenths % 10)

Header == <<"timestamp", "measured", "mode", "freqMode", "range">>

CsvRow(d) == <<d.Timestamp, Sprintf1(d.Measured), d.Mode, d.FreqMode, d.Range>>

NoData == [Timestamp |-> FormatTime(0), Measured |-> 0, Mode |-> "",
           FreqMode |-> "", Range |-> ""]

ZeroBuf == [i \in 1..BufLen |-> 0]

----------------------------------------------------------------------------
(* The device: what a Write or a Read can return *)

DeviceFrames ==
    { <<1, 194, 145, 0, 0, 0, 0, 0>>,
      <<3, 58, 79, 0, 0, 0, 0, 0>> }

ReadLens == {0, 1, 2, 8}

\* device.Write(command): an error flag and the number of bytes written
WriteCounts == {0, 7, 8}

WriteResults == [err : BOOLEAN, n : WriteCounts]

\* before the first device.Write
NoWrite == [err |-> FALSE, n |-> 0]

\* device.Read(b) delivering the first k bytes of frame f
ReadInto(b, f, k) == [i \in 1..BufLen |-> IF i <= k THEN f[i] ELSE b[i]]

----------------------------------------------------------------------------
(* Process state *)

Terminated == mainPc \in {"done", "fatal", "killed"}

Init ==
    /\ run = 1
    /\ now = 0
    /\ polls = 0
    /\ sigCount = 0
    /\ sigPolling = FALSE
    /\ logFileName \in {"", "log.csv"}
    /\ mainPc = "hidInit"
    /\ workerPc = "idle"
    /\ hidReady = FALSE
    /\ device = "none"
    /\ csvWriter = "nil"
    /\ csvErr = FALSE
    /\ notified = FALSE
    /\ stop = <<>>
    /\ buf = ZeroBuf
    /\ n = 0
    /\ readErr = FALSE
    /\ data = NoData
    /\ stdout = <<>>
    /\ stderr = <<>>
    /\ fileExists = FALSE
    /\ fileRows = <<>>
    /\ fileMark = 0
    /\ wr = NoWrite

\* time.Sleep(500 * time.Millisecond): the clock may pass a second boundary
Slept(t) == {t} \cup (IF t < MaxTime THEN {t + 1} ELSE {})

Line(k) == [kind |-> k]

----------------------------------------------------------------------------
(* main *)

\* log.Printf in place of log.Fatalf: the failure is logged and main goes on
Printf(next) == next

\* log.Fatalf(...): the message is logged and the process exits at once;
\* `next` is where main would have gone on
Fatalf(next) == "fatal"

\* hid.Init(); log.Fatalf on error
HidInit ==
    /\ mainPc = "hidInit"
    /\ \E ok \in BOOLEAN :
         IF ok
         THEN /\ hidReady' = TRUE
              /\ mainPc' = "open"
              /\ stderr' = stderr
         ELSE /\ hidReady' = hidReady
              /\ mainPc' = Fatalf("open")
              /\ stderr' = Append(stderr, Line("fatal: init"))
    /\ UNCHANGED <<run, now, polls, sigCount, sigPolling, logFileName,
                   workerPc, device, csvWriter, csvErr, notified, stop, buf,
                   n, readErr, data, stdout, fileExists, fileRows, fileMark, wr>>

\* hid.OpenFirst(vendorID, productID); log.Fatalf on error
OpenDevice ==
    /\ mainPc = "open"
    /\ \E ok \in BOOLEAN :
         IF ok
         THEN /\ device' = "open"
              /\ mainPc' = "setupLog"
              /\ stdout' = Append(stdout, Line("connected"))
              /\ stderr' = stderr
         ELSE /\ device' = device
              /\ mainPc' = Fatalf("setupLog")
              /\ stdout' = stdout
              /\ stderr' = Append(stderr, Line("fatal: open device"))
    /\ UNCHANGED <<run, now, polls, sigCount, sigPolling, logFileName,
                   workerPc, hidReady, csvWriter, csvErr, notified, stop,
                   buf, n, readErr, data, fileExists, fileRows, fileMark, wr>>

\* setupCSVLog: the rows on disk after a successful open of the log path
setupCSVLog(exists, rows) ==
    IF ~exists THEN Append(rows, Header) ELSE rows

\* if logFileName != "" { setupCSVLog(...); log.Fatalf on error }
SetupLog ==
    /\ mainPc = "setupLog"
    /\ IF logFileName = ""
       THEN /\ mainPc' = "probeSend"
            /\ UNCHANGED <<csvWriter, fileExists, fileRows, fileMark, stderr>>
       ELSE \E ok \in BOOLEAN :
              IF ok
              THEN /\ fileRows' = setupCSVLog(fileExists, fileRows)
                   /\ fileExists' = TRUE
                   /\ fileMark' = Len(fileRows')
                   /\ csvWriter' = "open"
                   /\ mainPc' = "probeSend"
                   /\ stderr' = stderr
              ELSE /\ mainPc' = Fatalf("probeSend")
                   /\ stderr' = Append(stderr, Line("fatal: open log"))
                   /\ UNCHANGED <<csvWriter, fileExists, fileRows, fileMark>>
    /\ UNCHANGED <<run, now, polls, sigCount, sigPolling, logFileName,
                   workerPc, hidReady, device, csvErr, notified, stop, buf,
                   n, readErr, data, stdout, wr>>

\* sendCommand without the byte count test: a short write passes
sendCommandNoCount(res) == ~res.err

\* sendCommand: fails if err != nil || n != 8
sendCommand(res) == ~(res.err \/ res.n # CmdLen)

\* readCurrentMode, first half: sendCommand(device, commandCapture)
ProbeSend ==
    /\ mainPc = "probeSend"
    /\ \E res \in WriteResults :
         /\ wr' = res
         /\ IF sendCommand(res)
            THEN /\ \E t \in Slept(now) : now' = t
                 /\ stdout' = Append(stdout, Line("command sent"))
                 /\ stderr' = stderr
                 /\ mainPc' = "probeRead"
            ELSE /\ now' = now
                 /\ stdout' = stdout
                 /\ stderr' = Append(stderr, Line("warning: read current mode"))
                 /\ mainPc' = "notify"
    /\ UNCHANGED <<run, polls, sigCount, sigPolling, logFileName, workerPc,
                   hidReady, device, csvWriter, csvErr, notified, stop, buf,
                   n, readErr, data, fileExists, fileRows, fileMark>>

\* the length test dropped from the probe
ProbeFailedErrOnly(err, k) == err

\* if err != nil || n < 6
ProbeFailed(err, k) == err \/ k < ProbeMin

\* readCurrentMode, second half: device.Read into a fresh buffer, n < 6 fails
ProbeRead ==
    /\ mainPc = "probeRead"
    /\ \E err \in BOOLEAN, k \in ReadLens, f \in DeviceFrames :
         LET b == ReadInto(ZeroBuf, f, k) IN
         /\ readErr' = err
         /\ n' = IF err THEN 0 ELSE k
         /\ IF ProbeFailed(err, k)
            THEN /\ stderr' = Append(stderr, Line("warning: read current mode"))
                 /\ stdout' = stdout
            ELSE /\ stderr' = stderr
                 /\ stdout' = Append(stdout,
                        [kind |-> "current mode", mode |-> parseMode(b[3]),
                         freqMode |-> parseFreqMode(b[3]),
                         range |-> parseRange(b[3])])
    /\ mainPc' = "notify"
    /\ UNCHANGED <<run, now, polls, sigCount, sigPolling, logFileName,
                   workerPc, hidReady, device, csvWriter, csvErr, notified,
                   stop, buf, data, fileExists, fileRows, fileMark, wr>>

\* stop := make(chan os.Signal, 1); signal.Notify(stop, ...)
Notify ==
    /\ mainPc = "notify"
    /\ notified' = TRUE
    /\ mainPc' = "go"
    /\ UNCHANGED <<run, now, polls, sigCount, sigPolling, logFileName,
                   workerPc, hidReady, device, csvWriter, csvErr, stop, buf,
                   n, readErr, data, stdout, stderr, fileExists, fileRows,
                   fileMark, wr>>

\* go readDecibelData(device, stop, csvWriter)
StartWorker ==
    /\ mainPc = "go"
    /\ workerPc' = "select"
    /\ mainPc' = "recv"
    /\ UNCHANGED <<run, now, polls, sigCount, sigPolling, logFileName,
                   hidReady, device, csvWriter, csvErr, notified, stop, buf,
                   n, readErr, data, stdout, stderr, fileExists, fileRows,
                   fileMark, wr>>

\* <-stop: take a buffered signal, or block as a waiting receiver
MainRecv ==
    /\ mainPc = "recv"
    /\ IF stop # <<>>
       THEN /\ stop' = Tail(stop)
            /\ mainPc' = "exiting"
       ELSE /\ stop' = stop
            /\ mainPc' = "parked"
    /\ UNCHANGED <<run, now, polls, sigCount, sigPolling, logFileName,
                   workerPc, hidReady, device, csvWriter, csvErr, notified,
                   buf, n, readErr, data, stdout, stderr, fileExists,
                   fileRows, fileMark, wr>>

\* fmt.Println("\nExiting...")
MainExiting ==
    /\ mainPc = "exiting"
    /\ stdout' = Append(stdout, Line("exiting"))
    /\ mainPc' = "closeCsv"
    /\ UNCHANGED <<run, now, polls, sigCount, sigPolling, logFileName,
                   workerPc, hidReady, device, csvWriter, csvErr, notified,
                   stop, buf, n, readErr, data, stderr, fileExists, fileRows,
                   fileMark, wr>>

\* deferred csvFile.Close() (registered only when logging is enabled)
CloseCsv ==
    /\ mainPc = "closeCsv"
    /\ csvWriter' = IF csvWriter = "nil" THEN "nil" ELSE "closed"
    /\ mainPc' = "closeDev"
    /\ UNCHANGED <<run, now, polls, sigCount, sigPolling, logFileName,
                   workerPc, hidReady, device, csvErr, notified, stop, buf,
                   n, readErr, data, stdout, stderr, fileExists, fileRows,
                   fileMark, wr>>

\* deferred device.Close()
CloseDevice ==
    /\ mainPc = "closeDev"
    /\ device' = "closed"
    /\ mainPc' = "hidExit"
    /\ UNCHANGED <<run, now, polls, sigCount, sigPolling, logFileName,
                   workerPc, hidReady, csvWriter, csvErr, notified, stop,
                   buf, n, readErr, data, stdout, stderr, fileExists,
                   fileRows, fileMark, wr>>

\* deferred hid.Exit(), then main returns and the process ends
HidExit ==
    /\ mainPc = "hidExit"
    /\ hidReady' = FALSE
    /\ mainPc' = "done"
    /\ UNCHANGED <<run, now, polls, sigCount, sigPolling, logFileName,
                   workerPc, device, csvWriter, csvErr, notified, stop, buf,
                   n, readErr, data, stdout, stderr, fileExists, fileRows,
                   fileMark, wr>>

MainStep ==
    \/ HidInit \/ OpenDevice \/ SetupLog \/ ProbeSend \/ ProbeRead
    \/ Notify \/ StartWorker \/ MainRecv \/ MainExiting \/ CloseCsv
    \/ CloseDevice \/ HidExit

----------------------------------------------------------------------------
(* The operating system: SIGINT / SIGTERM *)

\* Before signal.Notify the default disposition ends the process.  After
\* it, the runtime does a non-blocking send on the stop channel: a receiver
\* blocked on the channel gets the value directly, otherwise the value is
\* buffered if there is room and dropped if there is none.
Signal ==
    /\ ~Terminated
    /\ sigCount < MaxSignals
    /\ sigCount' = sigCount + 1
    /\ sigPolling' = (sigPolling \/ workerPc # "idle")
    /\ IF ~notified
       THEN /\ mainPc' = "killed"
            /\ stop' = stop
       ELSE IF mainPc = "parked"
       THEN /\ mainPc' = "exiting"
            /\ stop' = stop
       ELSE IF Len(stop) < StopCap
       THEN /\ mainPc' = mainPc
            /\ stop' = Append(stop, "sig")
       ELSE /\ mainPc' = mainPc
            /\ stop' = stop
    /\ UNCHANGED <<run, now, polls, logFileName, workerPc, hidReady, device,
                   csvWriter, csvErr, notified, buf, n, readErr, data,
                   stdout, stderr, fileExists, fileRows, fileMark, wr>>

----------------------------------------------------------------------------
(* readDecibelData *)

\* `break` in place of `return`: it leaves the select, not the loop
BreakSelect == "select"

\* case <-stop: return
Return == "stopped"

\* `return` in place of `continue` after a failed write or read
ReturnOnError == "stopped"

\* log.Printf(...); continue
Continue == "select"

\* the length test dropped: every successful read is published
ShouldPublishAlways(k) == k >= 0

\* if n > 0 { ... publish ... }
ShouldPublish(k) == k > 0

\* select { case <-stop: return; default: ... }
WorkerSelect ==
    /\ ~Terminated
    /\ workerPc = "select"
    /\ IF stop # <<>>
       THEN /\ stop' = Tail(stop)
            /\ workerPc' = Return
            /\ polls' = polls
       ELSE /\ polls < MaxPolls
            /\ stop' = stop
            /\ workerPc' = "sleep"
            /\ polls' = polls + 1
    /\ UNCHANGED <<run, now, sigCount, sigPolling, logFileName, mainPc,
                   hidReady, device, csvWriter, csvErr, notified, buf, n,
                   readErr, data, stdout, stderr, fileExists, fileRows,
                   fileMark, wr>>

\* time.Sleep(500 * time.Millisecond) // Prevent excessive polling
WorkerSleep ==
    /\ ~Terminated
    /\ workerPc = "sleep"
    /\ \E t \in Slept(now) : now' = t
    /\ workerPc' = "send"
    /\ UNCHANGED <<run, polls, sigCount, sigPolling, logFileName, mainPc,
                   hidReady, device, csvWriter, csvErr, notified, stop, buf,
                   n, readErr, data, stdout, stderr, fileExists, fileRows,
                   fileMark, wr>>

\* sendCommand(device, commandCapture); on error log and continue
WorkerSend ==
    /\ ~Terminated
    /\ workerPc = "send"
    /\ \E res \in WriteResults :
         /\ wr' = res
         /\ IF sendCommand(res)
            THEN /\ \E t \in Slept(now) : now' = t
                 /\ stdout' = Append(stdout, Line("command sent"))
                 /\ stderr' = stderr
                 /\ workerPc' = "read"
            ELSE /\ now' = now
                 /\ stdout' = stdout
                 /\ stderr' = Append(stderr,
                                     Line("error sending capture command"))
                 /\ workerPc' = Continue
    /\ UNCHANGED <<run, polls, sigCount, sigPolling, logFileName, mainPc,
                   hidReady, device, csvWriter, csvErr, notified, stop, buf,
                   n, readErr, data, fileExists, fileRows, fileMark>>

\* n, err := device.Read(buf); on error log and continue; publish if n > 0
WorkerRead ==
    /\ ~Terminated
    /\ workerPc = "read"
    /\ \E err \in BOOLEAN, k \in ReadLens, f \in DeviceFrames :
         IF err
         THEN /\ readErr' = TRUE
              /\ n' = 0
              /\ buf' = buf
              /\ stderr' = Append(stderr, Line("error reading data"))
              /\ workerPc' = Continue
         ELSE /\ readErr' = FALSE
              /\ n' = k
              /\ buf' = ReadInto(buf, f, k)
              /\ stderr' = stderr
              /\ workerPc' = IF ShouldPublish(k) THEN "emit" ELSE "select"
    /\ UNCHANGED <<run, now, polls, sigCount, sigPolling, logFileName,
                   mainPc, hidReady, device, csvWriter, csvErr, notified,
                   stop, data, stdout, fileExists, fileRows, fileMark, wr>>

\* Printf raw buffer; data := parseDecibelData(buf); Println(json of data)
WorkerEmit ==
    /\ ~Terminated
    /\ workerPc = "emit"
    /\ data' = parseDecibelData(buf, now)
    /\ stdout' = stdout \o << [kind |-> "raw", n |-> n, buf |-> buf],
                              [kind |-> "json", data |-> data'] >>
    /\ workerPc' = IF csvWriter # "nil" THEN "log" ELSE "select"
    /\ UNCHANGED <<run, now, polls, sigCount, sigPolling, logFileName,
                   mainPc, hidReady, device, csvWriter, csvErr, notified,
                   stop, buf, n, readErr, stderr, fileExists, fileRows,
                   fileMark, wr>>

\* csvWriter.Write(row); csvWriter.Flush(): both results are discarded.
\* A flush to a closed file fails, and the writer keeps its first error.
WorkerLog ==
    /\ ~Terminated
    /\ workerPc = "log"
    /\ IF csvWriter = "open" /\ ~csvErr
       THEN /\ fileRows' = Append(fileRows, CsvRow(data))
            /\ csvErr' = csvErr
       ELSE /\ fileRows' = fileRows
            /\ csvErr' = TRUE
    /\ workerPc' = "select"
    /\ UNCHANGED <<run, now, polls, sigCount, sigPolling, logFileName,
                   mainPc, hidReady, device, csvWriter, notified, stop, buf,
                   n, readErr, data, stdout, stderr, fileExists, fileMark, wr>>

WorkerStep ==
    \/ WorkerSelect \/ WorkerSleep \/ WorkerSend \/ WorkerRead
    \/ WorkerEmit \/ WorkerLog

----------------------------------------------------------------------------
(* The operator runs the program again; only the log file is kept *)

Restart ==
    /\ Terminated
    /\ run < MaxRuns
    /\ run' = run + 1
    /\ sigCount' = 0
    /\ sigPolling' = FALSE
    /\ logFileName' \in {"", "log.csv"}
    /\ mainPc' = "hidInit"
    /\ workerPc' = "idle"
    /\ hidReady' = FALSE
    /\ device' = "none"
    /\ csvWriter' = "nil"
    /\ csvErr' = FALSE
    /\ notified' = FALSE
    /\ stop' = <<>>
    /\ buf' = ZeroBuf
    /\ n' = 0
    /\ readErr' = FALSE
    /\ data' = NoData
    /\ stdout' = <<>>
    /\ stderr' = <<>>
    /\ fileMark' = Len(fileRows)
    /\ wr' = NoWrite
    /\ UNCHANGED <<now, polls, fileExists, fileRows>>

Next == MainStep \/ WorkerStep \/ Signal \/ Restart

Spec == Init /\ [][Next]_vars

\* The scheduler runs every goroutine that can take a step; signals and
\* new runs are up to the environment.
FairSpec == Spec /\ WF_vars(MainStep) /\ WF_vars(WorkerStep)

----------------------------------------------------------------------------
(* The codec on its own: the worker holds a frame it has just read in full *)
(* and decodes and logs it.                                                *)

FrameInputs ==
    { <<hi, lo, 145, 0, 0, 0, 0, 0>> : hi \in Byte, lo \in Byte }
    \cup { <<1, lo, b, 0, 0, 0, 0, 0>> : lo \in {58, 194}, b \in Byte }

DecInit ==
    /\ run = 1
    /\ now = 0
    /\ polls = 1
    /\ sigCount = 0
    /\ sigPolling = FALSE
    /\ logFileName = "log.csv"
    /\ mainPc = "parked"
    /\ workerPc = "emit"
    /\ hidReady = TRUE
    /\ device = "open"
    /\ csvWriter = "open"
    /\ csvErr = FALSE
    /\ notified = TRUE
    /\ stop = <<>>
    /\ buf \in FrameInputs
    /\ n = BufLen
    /\ readErr = FALSE
    /\ data = NoData
    /\ stdout = <<Line("connected"), Line("command sent")>>
    /\ stderr = <<Line("warning: read current mode")>>
    /\ fileExists = TRUE
    /\ fileRows = <<Header>>
    /\ fileMark = 1
    /\ wr = [err |-> FALSE, n |-> CmdLen]

DecNext == WorkerEmit \/ WorkerLog

DecSpec == DecInit /\ [][DecNext]_vars

----------------------------------------------------------------------------
(* Properties of the codec, checked under DecSpec *)

\* The worker has decoded the frame in buf
Decoded == workerPc # "emit"

Bit(b, k) == (b \div (2 ^ k)) % 2

\* C6: for every byte pair (hi, lo) the decoded measurement, in tenths of a
\* decibel, is exactly hi * 256 + lo, a value in 0..65535.
C6_MeasuredExact ==
    Decoded => /\ data.Measured = buf[1] * 256 + buf[2]
               /\ data.Measured \in 0..65535

C6_Witness ==
    Decoded /\ buf[1] = 255 /\ buf[2] = 255 /\ data.Measured = 65535

\* C7: parseFreqMode(b) is "dBC" exactly when bit 0x10 or bit 0x80 of b is
\* set and "dBA" otherwise, whatever bit 0x40 and the low nibble are.
C7_FreqMode ==
    Decoded =>
        LET b == buf[3]
            stripped == b - (b % 16) - 64 * Bit(b, 6)
        IN /\ data.FreqMode = "dBC" <=> (Bit(b, 4) = 1 \/ Bit(b, 7) = 1)
           /\ data.FreqMode # "dBC" => data.FreqMode = "dBA"
           /\ parseFreqMode(stripped) = data.FreqMode

C7_Witness ==
    Decoded /\ buf[3] = 207 /\ data.FreqMode = "dBC"

\* C8: parseRange(b) is decided by the low nibble of b alone: 0 "30-130",
\* 1 "30-80", 2 "50-100", 3 "60-110", 4 "80-130", 5..15 "unknown".
C8_Range ==
    Decoded =>
        LET nib == buf[3] % 16
        IN data.Range = CASE nib = 0 -> "30-130"
                          [] nib = 1 -> "30-80"
                          [] nib = 2 -> "50-100"
                          [] nib = 3 -> "60-110"
                          [] nib = 4 -> "80-130"
                          [] OTHER   -> "unknown"

C8_Witness ==
    Decoded /\ buf[3] = 244 /\ data.Range = "80-130"

\* C9: parseMode(b) is "fast" exactly when bit 0x40 of b is set and "slow"
\* otherwise.
C9_Mode ==
    Decoded =>
        /\ data.Mode = "fast" <=> Bit(buf[3], 6) = 1
        /\ data.Mode # "fast" => data.Mode = "slow"

C9_Witness ==
    Decoded /\ buf[3] = 79 /\ data.Mode = "fast"

\* The frame of the scenario: 0x01, 0xC2, 0x91
ScenarioFrame == Decoded /\ buf[1] = 1 /\ buf[2] = 194 /\ buf[3] = 145

\* C10 as stated: the frame 0x01, 0xC2, 0x91 decodes to measured 45.3,
\* mode "slow", freqMode "dBC", range "30-80".
C10_Original ==
    ScenarioFrame =>
        /\ data.Measured = 453
        /\ data.Mode = "slow"
        /\ data.FreqMode = "dBC"
        /\ data.Range = "30-80"

\* C10 amended: the frame 0x01, 0xC2, 0x91 decodes to measured 45.0
\* (0x01C2 = 450 tenths), mode "slow", freqMode "dBC", range "30-80".
C10_Scenario ==
    ScenarioFrame =>
        /\ data.Measured = 450
        /\ Sprintf1(data.Measured) = "45.0"
        /\ data.Mode = "slow"
        /\ data.FreqMode = "dBC"
        /\ data.Range = "30-80"

C10_Witness ==
    ScenarioFrame /\ data.Measured = 450 /\ workerPc = "select"

----------------------------------------------------------------------------
(* Properties of the running program, checked under Spec and FairSpec *)

\* Rows of the readings printed on standard output by this run, in order
IsJson(l) == l.kind = "json"

RECURSIVE RowsOf(_)
RowsOf(lines) ==
    IF lines = <<>> THEN <<>>
    ELSE IF IsJson(Head(lines))
         THEN <<CsvRow(Head(lines).data)>> \o RowsOf(Tail(lines))
         ELSE RowsOf(Tail(lines))

Published == RowsOf(stdout)

\* Rows appended to the log file by this run's polling loop
RunRows == SubSeq(fileRows, fileMark + 1, Len(fileRows))

\* The worker is not between the two sinks of one reading
BetweenReadings == workerPc # "log"

HeaderCount == Cardinality({i \in DOMAIN fileRows : fileRows[i] = Header})

\* C1: once polling has started, a single SIGINT or SIGTERM is eventually
\* followed by main returning from its wait and the process exiting.
C1_GracefulShutdown ==
    (sigPolling /\ sigCount = 1) ~> (mainPc = "done")

\* C2: a log file created by a run holds one header row, first, followed by
\* exactly the rows of the readings that run published, in order; a later
\* run adds no header, so the file always holds exactly one header row.
C2_LogShape ==
    /\ fileExists => (fileRows # <<>> /\ fileRows[1] = Header
                      /\ HeaderCount = 1)
    /\ (fileMark = 1 /\ csvWriter # "nil" /\ BetweenReadings)
           => fileRows = <<Header>> \o Published

\* C3: a Reading is published only when the read of the same iteration
\* delivered every byte the decoder consumes (bytes 0-2).
C3_NoPartialReading ==
    [][WorkerEmit => n >= FrameUsed]_vars

\* C4: with logging enabled the rows this run appended to the log are,
\* reading by reading and in order, the records it printed on standard
\* output; with logging disabled no row is written.
C4_FanOut ==
    /\ (csvWriter # "nil" /\ BetweenReadings) => RunRows = Published
    /\ logFileName = "" => RunRows = <<>>

\* C5: an iteration whose read succeeds with zero bytes prints no record,
\* appends no row, logs no diagnostic and returns to the cancellation check.
C5_ZeroRead ==
    [][(WorkerRead /\ ~readErr' /\ n' = 0) =>
          /\ stdout' = stdout
          /\ stderr' = stderr
          /\ fileRows' = fileRows
          /\ workerPc' = "select"]_vars

\* The first iteration has ended after a good write and a read of nothing
C5_Witness ==
    /\ workerPc = "select"
    /\ polls = 1
    /\ n = 0
    /\ ~readErr
    /\ \A i \in DOMAIN stderr :
           stderr[i].kind \notin {"error sending capture command",
                                  "error reading data"}
    /\ Published = <<>>
    /\ Len(stdout) >= 2
    /\ stdout[Len(stdout)].kind = "command sent"

----------------------------------------------------------------------------
(* Two decodes of the same frame bytes *)

\* Positions i < j of stdout holding the records of two calls of
\* parseDecibelData on equal buffers (the raw dump precedes each record)
SameFramePairs ==
    {p \in (DOMAIN stdout) \X (DOMAIN stdout) :
        /\ 1 < p[1] /\ p[1] < p[2]
        /\ IsJson(stdout[p[1]]) /\ IsJson(stdout[p[2]])
        /\ stdout[p[1] - 1].buf = stdout[p[2] - 1].buf}

----------------------------------------------------------------------------
(* Startup *)

Kinds(lines) == {lines[i].kind : i \in DOMAIN lines}

FatalKinds == {"fatal: init", "fatal: open device", "fatal: open log"}

\* Every write of the capture command leaves a line: "command sent" on
\* standard output, or the warning / error of the failed sendCommand
NoDeviceTraffic ==
    /\ wr = NoWrite
    /\ Kinds(stdout) \subseteq {"connected"}
    /\ Kinds(stderr) \subseteq FatalKinds

\* C12: when hid.Init fails, the device cannot be opened or the requested
\* log file cannot be opened, the process ends at once: no capture command
\* has been or will be written, the probe does not run and the worker is
\* never started.
C12_FatalSetup ==
    (Kinds(stderr) \cap FatalKinds # {}) =>
        /\ mainPc = "fatal"
        /\ NoDeviceTraffic
        /\ workerPc = "idle"
        /\ ~notified

\* The log file could not be opened, after the device was
C12_Witness ==
    /\ mainPc = "fatal"
    /\ device = "open"
    /\ "fatal: open log" \in Kinds(stderr)

----------------------------------------------------------------------------
(* Shutdown *)

\* C13: main returns, and the process exits, only after the worker has
\* observed the cancellation signal and returned from readDecibelData.
C13_WorkerStopsFirst ==
    mainPc = "done" => workerPc = "stopped"

\* C14: once the worker is started, main does not close or otherwise use
\* the device handle while the worker can still write to or read from it.
C14_DeviceExclusive ==
    [][(WorkerSend \/ WorkerRead) => device = "open"]_vars

----------------------------------------------------------------------------
(* Errors in the polling loop *)

WriteFailed(w) == w.err \/ w.n # 8

\* C15: an iteration whose capture command write returns an error or a
\* count other than 8 logs a diagnostic, performs no read, publishes nothing
\* and goes on to the next iteration; every read of the loop follows a write
\* of exactly 8 bytes in the same iteration.
C15_WriteGatesRead ==
    [][/\ (WorkerSend /\ WriteFailed(wr')) =>
             /\ stderr' = Append(stderr, Line("error sending capture command"))
             /\ stdout' = stdout
             /\ fileRows' = fileRows
             /\ n' = n /\ buf' = buf
             /\ workerPc' = "select"
       /\ (WorkerSend /\ ~WriteFailed(wr')) => workerPc' = "read"
       /\ WorkerRead => ~WriteFailed(wr)]_vars

\* A short write without an error has sent the worker back to its select
C15_Witness ==
    /\ workerPc = "select"
    /\ ~wr.err /\ wr.n = 7
    /\ stderr # <<>>
    /\ stderr[Len(stderr)].kind = "error sending capture command"
    /\ Published = <<>>

\* C16: the worker leaves its loop only by receiving from the stop channel
\* at the top of an iteration; a failed write, a failed read or an empty
\* read sends it back to the top, and an iteration whose read fails logs a
\* diagnostic and publishes nothing.
C16_OnlyCancellationStops ==
    [][/\ (workerPc # "stopped" /\ workerPc' = "stopped") =>
             /\ workerPc = "select"
             /\ stop # <<>> /\ stop' = Tail(stop)
       /\ (WorkerSend /\ WriteFailed(wr')) => workerPc' = "select"
       /\ (WorkerRead /\ ~readErr' /\ n' = 0) => workerPc' = "select"
       /\ (WorkerRead /\ readErr') =>
             /\ stderr' = Append(stderr, Line("error reading data"))
             /\ stdout' = stdout
             /\ fileRows' = fileRows
             /\ workerPc' = "select"]_vars

\* After a failed read in the first iteration and a failed write in the
\* second the worker is back at its select
C16_Witness ==
    /\ workerPc = "select"
    /\ polls = 2
    /\ readErr
    /\ WriteFailed(wr)
    /\ {"error reading data", "error sending capture command"}
           \subseteq Kinds(stderr)

----------------------------------------------------------------------------
(* The initial probe *)

CountKind(lines, k) == Cardinality({i \in DOMAIN lines : lines[i].kind = k})

\* Probes that have run to their end in this run: each ends in the
\* "Current Mode" line or in the warning
ProbesDone ==
    CountKind(stdout, "current mode")
        + CountKind(stderr, "warning: read current mode")

SetupDone ==
    /\ hidReady
    /\ device = "open"
    /\ logFileName # "" => csvWriter = "open"

\* C18: main runs the probe once, after setup and before it starts the
\* worker: one write of the capture command, then one read unless the write
\* failed; a failed write, a read error or a read of fewer than 6 bytes only
\* logs a warning, and in every case main goes on to start the worker.
C18_ProbeOnce ==
    [][/\ (ProbeSend \/ ProbeRead) =>
             /\ SetupDone
             /\ ProbesDone = 0
             /\ workerPc = "idle" /\ workerPc' = "idle"
       /\ (ProbeSend /\ WriteFailed(wr')) =>
             /\ stderr' = Append(stderr, Line("warning: read current mode"))
             /\ stdout' = stdout
             /\ n' = n /\ readErr' = readErr
             /\ mainPc' = "notify"
       /\ (ProbeSend /\ ~WriteFailed(wr')) => mainPc' = "probeRead"
       /\ (ProbeRead /\ (readErr' \/ n' < 6)) =>
             /\ stderr' = Append(stderr, Line("warning: read current mode"))
             /\ stdout' = stdout
             /\ mainPc' = "notify"
       /\ (ProbeRead /\ ~(readErr' \/ n' < 6)) =>
             /\ stderr' = stderr
             /\ CountKind(stdout', "current mode") = 1
             /\ mainPc' = "notify"
       /\ (workerPc = "idle" /\ workerPc' # "idle") =>
             /\ ProbesDone = 1
             /\ CountKind(stdout, "command sent") <= 1]_vars

\* The worker is polling after a probe whose read came back too short
C18_Witness ==
    /\ workerPc = "sleep"
    /\ ~WriteFailed(wr)
    /\ ~readErr /\ n = 2
    /\ Kinds(stderr) = {"warning: read current mode"}

----------------------------------------------------------------------------
(* Failure of the tabular log *)

\* C19: when writing a row to the log fails, a diagnostic is logged for the
\* failure and the worker goes on polling and publishing.
C19_LogFailureReported ==
    [][(WorkerLog /\ fileRows' = fileRows) =>
          /\ Len(stderr') = Len(stderr) + 1
          /\ workerPc' = "select"]_vars

====
